---- MODULE Spec2Model ----
(***************************************************************************)
(* Model of src/parser/datetime.rs: the interval/timestamp literal         *)
(* tokenizers (tokenize_interval, tokenize_timezone), the expected-pattern *)
(* tables (potential_interval_tokens, potential_timezone_tokens) and the   *)
(* assignment pass (build_parsed_datetime).                                *)
(*                                                                         *)
(* Characters are one-character strings; a literal is a sequence of them.  *)
(* Unsigned machine integers are little-endian sequences of 16-bit limbs   *)
(* (u32: 2 limbs, u64: 4 limbs), so that the width of every value of the   *)
(* program is kept although the integers of TLC are 32 bits wide.          *)
(***************************************************************************)
EXTENDS Integers, Sequences, FiniteSets, TLC

(***************************************************************************)
(* Fixed-width unsigned arithmetic.                                        *)
(***************************************************************************)
\* One limb holds 16 bits.
LimbBase == 2^16

\* Limbs of u32 and of u64 (IntervalToken::Nanos(u32), IntervalToken::Num(u64)).
U32Limbs == 2
U64Limbs == 4

\* A small natural (below 2^31) as a w-limb value.
RECURSIVE FromInt(_, _)
FromInt(n, w) ==
    IF w = 0 THEN <<>> ELSE <<n % LimbBase>> \o FromInt(n \div LimbBase, w - 1)

Zero(w) == FromInt(0, w)

IsZero(x) == \A k \in 1..Len(x) : x[k] = 0

\* x * m + c for a small m and c (m <= 256, c < LimbBase): Len(x) limbs followed by
\* the carry out of the top limb.
RECURSIVE MulAddC(_, _, _)
MulAddC(x, m, c) ==
    IF x = <<>> THEN <<c>>
    ELSE LET t == Head(x) * m + c
         IN  <<t % LimbBase>> \o MulAddC(Tail(x), m, t \div LimbBase)

\* x + y for two values of the same width: the limbs followed by the carry out.
RECURSIVE AddC(_, _, _)
AddC(x, y, c) ==
    IF x = <<>> THEN <<c>>
    ELSE LET t == Head(x) + Head(y) + c
         IN  <<t % LimbBase>> \o AddC(Tail(x), Tail(y), t \div LimbBase)

Low(r) == SubSeq(r, 1, Len(r) - 1)      \* the wrapped result
Carry(r) == r[Len(r)]                   \* non-zero iff the operation overflowed

\* x * m for a natural m below 2^31, eight bits of m at a time: [v |-> the
\* product modulo the width, ovf |-> whether the true product exceeds the width].
RECURSIVE MulNat(_, _)
MulNat(x, m) ==
    IF m = 0 THEN [v |-> Zero(Len(x)), ovf |-> FALSE]
    ELSE LET h == MulNat(x, m \div 256)
             shifted == MulAddC(h.v, 256, 0)
             part == MulAddC(x, m % 256, 0)
             sum == AddC(Low(shifted), Low(part), 0)
         IN  [v |-> Low(sum),
              ovf |-> h.ovf \/ Carry(shifted) # 0 \/ Carry(part) # 0 \/ Carry(sum) # 0]

(***************************************************************************)
(* Characters.                                                             *)
(***************************************************************************)
DigitChars == <<"0", "1", "2", "3", "4", "5", "6", "7", "8", "9">>

\* char::is_digit(10)
IsDigit(chr) == \E k \in 1..10 : DigitChars[k] = chr

DigitVal(chr) == (CHOOSE k \in 1..10 : DigitChars[k] = chr) - 1

\* str::parse::<u32>() / str::parse::<u64>() on a string of decimal digits: an empty
\* string is an error, and so is a value that does not fit the width (every step
\* is a checked multiplication by 10 and a checked addition of the digit).
RECURSIVE ParseFrom(_, _)
ParseFrom(n, acc) ==
    IF n = <<>> THEN [ok |-> TRUE, v |-> acc]
    ELSE LET r == MulAddC(acc, 10, DigitVal(Head(n)))
         IN  IF Carry(r) # 0 THEN [ok |-> FALSE, v |-> acc]
             ELSE ParseFrom(Tail(n), Low(r))

ParseUnsigned(n, w) ==
    IF n = <<>> THEN [ok |-> FALSE, v |-> Zero(w)] ELSE ParseFrom(n, Zero(w))

(***************************************************************************)
(* IntervalToken.                                                          *)
(***************************************************************************)
Dash == [k |-> "Dash", v |-> <<>>]
Space == [k |-> "Space", v |-> <<>>]
Colon == [k |-> "Colon", v |-> <<>>]
Dot == [k |-> "Dot", v |-> <<>>]
Plus == [k |-> "Plus", v |-> <<>>]
Num(val) == [k |-> "Num", v |-> val]
Nanos(val) == [k |-> "Nanos", v |-> val]

\* IntervalToken::Num(u64) and IntervalToken::Nanos(u32) of a small natural.
NumOf(n) == Num(FromInt(n, U64Limbs))
NanosOf(n) == Nanos(FromInt(n, U32Limbs))

(***************************************************************************)
(* tokenize_interval::parse_num.  overflow_checks is the build's setting   *)
(* for arithmetic overflow: with it an overflowing u32 operation panics,   *)
(* without it the operation wraps modulo 2^32.                             *)
(***************************************************************************)
Billion == 1000000000

\* 10_u32.pow(chars): [v |-> 10^chars modulo 2^32, ovf |-> 10^chars >= 2^32].
RECURSIVE Pow10(_)
Pow10(chars) ==
    IF chars = 0 THEN [v |-> FromInt(1, U32Limbs), ovf |-> FALSE]
    ELSE LET p == Pow10(chars - 1)
             r == MulAddC(p.v, 10, 0)
         IN  [v |-> Low(r), ovf |-> p.ovf \/ Carry(r) # 0]

\* 1_000_000_000 / p for a non-zero u32 p (a p of 2^30 or more exceeds the dividend).
QuotBillion(p) ==
    IF p[2] >= 2^14 THEN 0 ELSE Billion \div (p[2] * LimbBase + p[1])

\* parse_num without the scaling of a fraction to nanoseconds.
parse_num_unscaled(n, is_fraction, overflow_checks) ==
    IF is_fraction
    THEN LET raw == ParseUnsigned(n, U32Limbs)
         IN  IF ~raw.ok THEN [st |-> "ParserError", tok |-> Dash]
             ELSE [st |-> "Ok", tok |-> Nanos(raw.v)]
    ELSE LET val == ParseUnsigned(n, U64Limbs)
         IN  IF ~val.ok THEN [st |-> "ParserError", tok |-> Dash]
             ELSE [st |-> "Ok", tok |-> Num(val.v)]

parse_num(n, is_fraction, overflow_checks) ==
    IF is_fraction
    THEN LET raw == ParseUnsigned(n, U32Limbs)
             chars == Len(n)
             pow == Pow10(chars)
             multiplicand == QuotBillion(pow.v)
             prod == MulNat(raw.v, multiplicand)
         IN  IF ~raw.ok THEN [st |-> "ParserError", tok |-> Dash]
             ELSE IF pow.ovf /\ overflow_checks THEN [st |-> "panic", tok |-> Dash]
             ELSE IF IsZero(pow.v) THEN [st |-> "panic", tok |-> Dash]
             ELSE IF prod.ovf /\ overflow_checks THEN [st |-> "panic", tok |-> Dash]
             ELSE [st |-> "Ok", tok |-> Nanos(prod.v)]
    ELSE LET val == ParseUnsigned(n, U64Limbs)
         IN  IF ~val.ok THEN [st |-> "ParserError", tok |-> Dash]
             ELSE [st |-> "Ok", tok |-> Num(val.v)]

(***************************************************************************)
(* tokenize_timezone.                                                      *)
(***************************************************************************)
\* tokenize_timezone::parse_num
tz_parse_num(n) ==
    LET val == ParseUnsigned(n, U64Limbs)
    IN  IF ~val.ok THEN [st |-> "ParserError", tok |-> Dash]
        ELSE [st |-> "Ok", tok |-> Num(val.v)]

TzFail(kind) == [toks |-> <<>>, num_buf |-> <<>>, ret |-> kind]

\* One iteration of the loop of tokenize_timezone on the character chr.
TimezoneChar(s, chr) ==
    LET p == tz_parse_num(s.num_buf)
    IN  CASE chr = "-" ->
               [s EXCEPT !.num_buf = <<>>, !.toks = Append(@, Dash)]
          [] chr = " " ->
               IF p.st # "Ok" THEN TzFail(p.st)
               ELSE [s EXCEPT !.toks = @ \o <<p.tok, Space>>, !.num_buf = <<>>]
          [] chr = ":" ->
               IF p.st # "Ok" THEN TzFail(p.st)
               ELSE [s EXCEPT !.toks = @ \o <<p.tok, Colon>>, !.num_buf = <<>>]
          [] chr = "+" ->
               [s EXCEPT !.num_buf = <<>>, !.toks = Append(@, Plus)]
          [] IsDigit(chr) ->
               [s EXCEPT !.num_buf = Append(@, chr)]
          [] OTHER -> TzFail("TokenizerError")

\* The end of tokenize_timezone: the last buffered digits and the return.
TimezoneEnd(s) ==
    LET p == tz_parse_num(s.num_buf)
    IN  IF s.num_buf = <<>> THEN [s EXCEPT !.ret = "Ok"]
        ELSE IF p.st # "Ok" THEN TzFail(p.st)
        ELSE [toks |-> Append(s.toks, p.tok), num_buf |-> <<>>, ret |-> "Ok"]

RECURSIVE TimezoneRun(_, _, _)
TimezoneRun(s, value, i) ==
    IF s.ret # "none" THEN s
    ELSE IF i > Len(value) THEN TimezoneEnd(s)
    ELSE TimezoneRun(TimezoneChar(s, value[i]), value, i + 1)

\* tokenize_timezone(value): [ret |-> "Ok" or the error, toks |-> the tokens].
tokenize_timezone(value) ==
    TimezoneRun([toks |-> <<>>, num_buf |-> <<>>, ret |-> "none"], value, 1)

(***************************************************************************)
(* tokenize_interval.  A tokenizer state s holds the locals of the         *)
(* function: toks, num_buf, is_frac, after_time_value, and ret, which is   *)
(* "none" while the loop runs and else what the function returned: "Ok"    *)
(* with (toks, timezone_toks), or the error, or "panic".  A call that does *)
(* not return Ok returns no tokens.                                        *)
(***************************************************************************)
TokFail(kind) ==
    [toks |-> <<>>, num_buf |-> <<>>, is_frac |-> FALSE, after_time_value |-> FALSE,
     timezone_toks |-> <<>>, ret |-> kind]

TokStart ==
    [toks |-> <<>>, num_buf |-> <<>>, is_frac |-> FALSE, after_time_value |-> FALSE,
     timezone_toks |-> <<>>, ret |-> "none"]

\* return Ok((toks, timezone_toks))
TokReturn(toks, timezone_toks) ==
    [toks |-> toks, num_buf |-> <<>>, is_frac |-> FALSE, after_time_value |-> FALSE,
     timezone_toks |-> timezone_toks, ret |-> "Ok"]

\* PlusArm without the check of after_time_value.
PlusArmAnywhere(s, rest, include_timezone, overflow_checks) ==
    LET p == parse_num(s.num_buf, s.is_frac, overflow_checks)
        tz == tokenize_timezone(rest)
    IN  IF ~include_timezone THEN TokFail("TokenizerError")
        ELSE IF p.st # "Ok" THEN TokFail(p.st)
        ELSE IF tz.ret # "Ok" THEN TokFail(tz.ret)
        ELSE TokReturn(Append(s.toks, p.tok), tz.toks)

\* PlusArm without the flush of the buffer.
PlusArmNoFlush(s, rest, include_timezone, overflow_checks) ==
    LET tz == tokenize_timezone(rest)
    IN  IF ~include_timezone \/ ~s.after_time_value THEN TokFail("TokenizerError")
        ELSE IF tz.ret # "Ok" THEN TokFail(tz.ret)
        ELSE TokReturn(s.toks, tz.toks)

\* The '+' arm: the check of include_timezone and after_time_value, the flush of
\* the buffer, and the call of tokenize_timezone on value.get(i..), here rest.
PlusArm(s, rest, include_timezone, overflow_checks) ==
    LET p == parse_num(s.num_buf, s.is_frac, overflow_checks)
        tz == tokenize_timezone(rest)
    IN  IF ~include_timezone \/ ~s.after_time_value THEN TokFail("TokenizerError")
        ELSE IF p.st # "Ok" THEN TokFail(p.st)
        ELSE IF tz.ret # "Ok" THEN TokFail(tz.ret)
        ELSE TokReturn(Append(s.toks, p.tok), tz.toks)

\* The '-' arm: the buffer is flushed only when it is not empty.
DashArm(s, overflow_checks) ==
    LET p == parse_num(s.num_buf, s.is_frac, overflow_checks)
    IN  IF s.num_buf = <<>>
        THEN [s EXCEPT !.toks = Append(@, Dash), !.is_frac = FALSE]
        ELSE IF p.st # "Ok" THEN TokFail(p.st)
        ELSE [s EXCEPT !.toks = @ \o <<p.tok, Dash>>, !.num_buf = <<>>,
                       !.is_frac = FALSE]

\* SpaceArm that flushes the buffer only when it is not empty, as the '-' arm does.
SpaceArmLenient(s, overflow_checks) ==
    LET p == parse_num(s.num_buf, s.is_frac, overflow_checks)
    IN  IF s.num_buf = <<>>
        THEN [s EXCEPT !.toks = Append(@, Space), !.is_frac = FALSE]
        ELSE IF p.st # "Ok" THEN TokFail(p.st)
        ELSE [s EXCEPT !.toks = @ \o <<p.tok, Space>>, !.num_buf = <<>>,
                       !.is_frac = FALSE]

\* The ' ', ':' and '.' arms: the buffer is flushed whatever it holds.
SpaceArm(s, overflow_checks) ==
    LET p == parse_num(s.num_buf, s.is_frac, overflow_checks)
    IN  IF p.st # "Ok" THEN TokFail(p.st)
        ELSE [s EXCEPT !.toks = @ \o <<p.tok, Space>>, !.num_buf = <<>>,
                       !.is_frac = FALSE]

ColonArm(s, overflow_checks) ==
    LET p == parse_num(s.num_buf, s.is_frac, overflow_checks)
    IN  IF p.st # "Ok" THEN TokFail(p.st)
        ELSE [s EXCEPT !.toks = @ \o <<p.tok, Colon>>, !.num_buf = <<>>,
                       !.is_frac = FALSE, !.after_time_value = TRUE]

DotArm(s, overflow_checks) ==
    LET p == parse_num(s.num_buf, s.is_frac, overflow_checks)
    IN  IF p.st # "Ok" THEN TokFail(p.st)
        ELSE [s EXCEPT !.toks = @ \o <<p.tok, Dot>>, !.num_buf = <<>>,
                       !.is_frac = TRUE]

\* One iteration of the loop of tokenize_interval on the character chr, where
\* rest is the text from chr to the end.
IntervalChar(s, chr, rest, include_timezone, overflow_checks) ==
    CASE chr = "-" -> DashArm(s, overflow_checks)
      [] chr = " " -> SpaceArm(s, overflow_checks)
      [] chr = ":" -> ColonArm(s, overflow_checks)
      [] chr = "." -> DotArm(s, overflow_checks)
      [] chr = "+" -> PlusArm(s, rest, include_timezone, overflow_checks)
      [] IsDigit(chr) -> [s EXCEPT !.num_buf = Append(@, chr)]
      [] OTHER -> TokFail("TokenizerError")

\* The end of tokenize_interval: the last buffered digits and the return.
IntervalEnd(s, overflow_checks) ==
    LET p == parse_num(s.num_buf, s.is_frac, overflow_checks)
    IN  IF s.num_buf = <<>> THEN TokReturn(s.toks, <<>>)
        ELSE IF p.st # "Ok" THEN TokFail(p.st)
        ELSE TokReturn(Append(s.toks, p.tok), <<>>)

RECURSIVE IntervalRun(_, _, _, _, _)
IntervalRun(s, value, i, include_timezone, overflow_checks) ==
    IF s.ret # "none" THEN s
    ELSE IF i > Len(value) THEN IntervalEnd(s, overflow_checks)
    ELSE IntervalRun(IntervalChar(s, value[i], SubSeq(value, i, Len(value)),
                                  include_timezone, overflow_checks),
                     value, i + 1, include_timezone, overflow_checks)

\* tokenize_interval(value, include_timezone): the state at the return.
tokenize_interval(value, include_timezone, overflow_checks) ==
    IntervalRun(TokStart, value, 1, include_timezone, overflow_checks)

(***************************************************************************)
(* DateTimeField and the expected-pattern tables.                          *)
(***************************************************************************)
DateTimeField ==
    {"Year", "Month", "Day", "Hour", "Minute", "Second", "TimezoneOffsetSecond"}

\* current_field.into_iter().next(): the field after f, or "None" when there is
\* none.
Successor(f) ==
    CASE f = "Year" -> "Month"
      [] f = "Month" -> "Day"
      [] f = "Day" -> "Hour"
      [] f = "Hour" -> "Minute"
      [] f = "Minute" -> "Second"
      [] OTHER -> "None"

\* all_toks without the day and the Space after it.
all_toks_short ==
    <<NumOf(0), Dash, NumOf(0), Dash, NumOf(0), Colon, NumOf(0),
      Colon, NumOf(0), Dot, NanosOf(0)>>

all_toks ==
    <<NumOf(0), Dash, NumOf(0), Dash, NumOf(0), Space, NumOf(0), Colon, NumOf(0),
      Colon, NumOf(0), Dot, NanosOf(0)>>

\* Offset with the entries of Month and Day exchanged.
OffsetSwapped(from) ==
    CASE from = "Year" -> 0
      [] from = "Month" -> 4
      [] from = "Day" -> 2
      [] from = "Hour" -> 6
      [] from = "Minute" -> 8
      [] from = "Second" -> 10
      [] from = "TimezoneOffsetSecond" -> 0

\* The offset of potential_interval_tokens.
Offset(from) ==
    CASE from = "Year" -> 0
      [] from = "Month" -> 2
      [] from = "Day" -> 4
      [] from = "Hour" -> 6
      [] from = "Minute" -> 8
      [] from = "Second" -> 10
      [] from = "TimezoneOffsetSecond" -> 0

\* all_toks[offset..].to_vec()
potential_interval_tokens(from) ==
    SubSeq(all_toks, Offset(from) + 1, Len(all_toks))

potential_timezone_tokens == <<Plus, NumOf(0), Colon, NumOf(0)>>

(***************************************************************************)
(* ParsedDateTime.  An Option is a sequence: <<>> is None, <<v>> is        *)
(* Some(v).  timezone_offset_second is an i64 in two's complement.         *)
(***************************************************************************)
None == <<>>
Some(v) == <<v>>

DefaultParsedDateTime ==
    [is_positive |-> TRUE, year |-> None, month |-> None, day |-> None,
     hour |-> None, minute |-> None, second |-> None, nano |-> None,
     timezone_offset_second |-> None]

(***************************************************************************)
(* 64-bit helpers of the timezone pass.                                    *)
(***************************************************************************)
\* The sign bit of an i64.
IsNeg(x) == x[Len(x)] >= 2^15

\* a + b on i64: [v |-> the wrapped sum, ovf |-> signed overflow].
SignedAdd(a, b) ==
    LET r == Low(AddC(a, b, 0))
    IN  [v |-> r, ovf |-> IsNeg(a) = IsNeg(b) /\ IsNeg(r) # IsNeg(a)]

\* x * -1 on i64: [v |-> the wrapped product, ovf |-> x is i64::MIN].
Negate(x) ==
    LET c == [k \in 1..Len(x) |-> LimbBase - 1 - x[k]]
        r == Low(AddC(c, FromInt(1, Len(x)), 0))
    IN  [v |-> r, ovf |-> IsNeg(x) /\ r = x]

\* val * 60 on u64: [v |-> the wrapped product, ovf |-> unsigned overflow].
Times60(val) ==
    LET r == MulAddC(val, 60, 0) IN [v |-> Low(r), ovf |-> Carry(r) # 0]

(***************************************************************************)
(* build_parsed_datetime.  A build state b holds the locals of the         *)
(* function: expected and actual (the two sides of the zip, shadowed by    *)
(* the timezone pass), idx (the number of pairs consumed), current_field,  *)
(* pdt, seconds_seen, and the timezone pass's is_positive, hours_seen,     *)
(* minutes_seen and tz_offset; res is "none" while the function runs and   *)
(* else "Ok" (pdt is returned), "ParserError" or "panic", with msg the     *)
(* message of the error.  A call that fails returns no pdt.                *)
(***************************************************************************)
BuildIdle ==
    [expected |-> <<>>, actual |-> <<>>, idx |-> 0, current_field |-> "None",
     pdt |-> DefaultParsedDateTime, seconds_seen |-> 0, tz_is_positive |-> TRUE,
     hours_seen |-> FALSE, minutes_seen |-> FALSE, tz_offset |-> Zero(U64Limbs),
     res |-> "none", msg |-> ""]

BuildFail(kind, msg) == [BuildIdle EXCEPT !.res = kind, !.msg = msg]

\* IsPositive that never finds a Dash.
IsPositiveAlways(tokens) == TRUE

\* The match on actual.peek(): TRUE iff the first token is not Dash.
IsPositive(tokens) == ~(tokens # <<>> /\ Head(tokens) = Dash)

\* The iterator after the match on actual.peek(): a leading Dash is consumed.
AfterSign(tokens) == IF IsPositive(tokens) THEN tokens ELSE Tail(tokens)

\* The entry of build_parsed_datetime, up to the body loop.
BuildStart(tokens, leading_field) ==
    [BuildIdle EXCEPT !.expected = potential_interval_tokens(leading_field),
                      !.actual = AfterSign(tokens),
                      !.current_field = leading_field,
                      !.pdt = [DefaultParsedDateTime EXCEPT
                                  !.is_positive = IsPositive(tokens)]]

\* Advance without the test for Second.
AdvanceUnguarded(b) ==
    IF Successor(b.current_field) = "None"
    THEN BuildFail("panic", "Exhausted day iterator")
    ELSE [b EXCEPT !.current_field = Successor(@)]

\* The advance of current_field after a Num was written.
Advance(b) ==
    IF b.current_field = "Second" THEN b
    ELSE IF Successor(b.current_field) = "None"
         THEN BuildFail("panic", "Exhausted day iterator")
         ELSE [b EXCEPT !.current_field = Successor(@)]

\* AssignNum without the check of the day.
AssignNumAnyDay(b, val) ==
    CASE b.current_field = "Year" -> Advance([b EXCEPT !.pdt.year = Some(val)])
      [] b.current_field = "Month" ->
           IF IsZero(val) THEN BuildFail("ParserError", "Invalid Month")
           ELSE Advance([b EXCEPT !.pdt.month = Some(val)])
      [] b.current_field = "Day" -> Advance([b EXCEPT !.pdt.day = Some(val)])
      [] b.current_field = "Hour" -> Advance([b EXCEPT !.pdt.hour = Some(val)])
      [] b.current_field = "Minute" -> Advance([b EXCEPT !.pdt.minute = Some(val)])
      [] b.current_field = "Second" /\ b.seconds_seen = 0 ->
           Advance([b EXCEPT !.seconds_seen = @ + 1, !.pdt.second = Some(val)])
      [] b.current_field = "Second" /\ b.seconds_seen # 0 ->
           BuildFail("ParserError", "Too many numbers to parse as a second")
      [] b.current_field = "TimezoneOffsetSecond" ->
           Advance([b EXCEPT !.pdt.timezone_offset_second = Some(val)])

\* The (Num(val), Num(_)) arm of the body loop.
AssignNum(b, val) ==
    CASE b.current_field = "Year" -> Advance([b EXCEPT !.pdt.year = Some(val)])
      [] b.current_field = "Month" ->
           IF IsZero(val) THEN BuildFail("ParserError", "Invalid Month")
           ELSE Advance([b EXCEPT !.pdt.month = Some(val)])
      [] b.current_field = "Day" ->
           IF IsZero(val) THEN BuildFail("ParserError", "Invalid Day")
           ELSE Advance([b EXCEPT !.pdt.day = Some(val)])
      [] b.current_field = "Hour" -> Advance([b EXCEPT !.pdt.hour = Some(val)])
      [] b.current_field = "Minute" -> Advance([b EXCEPT !.pdt.minute = Some(val)])
      [] b.current_field = "Second" /\ b.seconds_seen = 0 ->
           Advance([b EXCEPT !.seconds_seen = @ + 1, !.pdt.second = Some(val)])
      [] b.current_field = "Second" /\ b.seconds_seen # 0 ->
           BuildFail("ParserError", "Too many numbers to parse as a second")
      [] b.current_field = "TimezoneOffsetSecond" ->
           Advance([b EXCEPT !.pdt.timezone_offset_second = Some(val)])

\* Punctuation without the (Colon, Colon) pair.
PunctuationNoColon == {"Dash", "Space", "Dot"}

\* The kinds of the matching-punctuation arm of the body loop.
Punctuation == {"Dash", "Space", "Colon", "Dot"}

\* Whether the zip of actual and expected yields another pair.
MorePairs(b) == b.idx < Len(b.actual) /\ b.idx < Len(b.expected)

\* One iteration of the body loop on the next pair (atok, etok).
BodyPair(b) ==
    LET atok == b.actual[b.idx + 1]
        etok == b.expected[b.idx + 1]
        next == [b EXCEPT !.idx = @ + 1]
    IN  CASE atok.k = etok.k /\ atok.k \in Punctuation -> next
          [] atok.k = "Num" /\ etok.k = "Num" -> AssignNum(next, atok.v)
          [] atok.k = "Nanos" /\ etok.k = "Nanos" /\ b.seconds_seen = 1 ->
               [next EXCEPT !.pdt.nano = Some(atok.v)]
          [] OTHER -> BuildFail("ParserError", "Invalid interval part")

\* The entry of the timezone pass, up to its loop.
TzStart(b, timezone_tokens) ==
    [b EXCEPT !.expected = potential_timezone_tokens,
              !.actual = AfterSign(timezone_tokens),
              !.idx = 0,
              !.tz_is_positive = IsPositive(timezone_tokens),
              !.hours_seen = FALSE, !.minutes_seen = FALSE,
              !.tz_offset = Zero(U64Limbs)]

\* The (Num(val), Num(_)) arm of the timezone loop: the first Num adds
\* (val * 60 * 60) as i64 to tz_offset, the second (val * 60) as i64, a later
\* one nothing.
TzNum(b, val, overflow_checks) ==
    LET m == Times60(val)
        h == Times60(m.v)
        x == IF ~b.hours_seen THEN [v |-> h.v, ovf |-> m.ovf \/ h.ovf] ELSE m
        sum == SignedAdd(b.tz_offset, x.v)
    IN  IF b.hours_seen /\ b.minutes_seen THEN b
        ELSE IF (x.ovf \/ sum.ovf) /\ overflow_checks
             THEN BuildFail("panic", "arithmetic overflow")
        ELSE IF ~b.hours_seen
             THEN [b EXCEPT !.tz_offset = sum.v, !.hours_seen = TRUE]
        ELSE [b EXCEPT !.tz_offset = sum.v, !.minutes_seen = TRUE]

TzPunctuation == {"Dash", "Space", "Colon", "Dot", "Plus"}

\* One iteration of the timezone loop on the next pair (atok, etok).
TzPair(b, overflow_checks) ==
    LET atok == b.actual[b.idx + 1]
        etok == b.expected[b.idx + 1]
        next == [b EXCEPT !.idx = @ + 1]
    IN  CASE atok.k = etok.k /\ atok.k \in TzPunctuation -> next
          [] atok.k = "Num" /\ etok.k = "Num" -> TzNum(next, atok.v, overflow_checks)
          [] OTHER -> BuildFail("ParserError", "Invalid interval time zone part")

\* Ok(pdt) without a timezone pass.
BodyReturn(b) == [BuildIdle EXCEPT !.pdt = b.pdt, !.res = "Ok"]

\* The end of the timezone pass: the sign, the store into pdt, and Ok(pdt).
TzReturn(b, overflow_checks) ==
    LET neg == Negate(b.tz_offset)
        off == IF b.tz_is_positive THEN b.tz_offset ELSE neg.v
    IN  IF ~b.tz_is_positive /\ neg.ovf /\ overflow_checks
        THEN BuildFail("panic", "arithmetic overflow")
        ELSE [BuildIdle EXCEPT
                 !.pdt = [b.pdt EXCEPT !.timezone_offset_second = Some(off)],
                 !.res = "Ok"]

RECURSIVE BuildRun(_, _, _, _)
BuildRun(b, phase, timezone_tokens, overflow_checks) ==
    IF b.res # "none" THEN b
    ELSE IF MorePairs(b)
         THEN BuildRun(IF phase = "body" THEN BodyPair(b)
                       ELSE TzPair(b, overflow_checks),
                       phase, timezone_tokens, overflow_checks)
    ELSE IF phase = "tz" THEN TzReturn(b, overflow_checks)
    ELSE IF timezone_tokens # <<>>
         THEN BuildRun(TzStart(b, timezone_tokens), "tz", timezone_tokens,
                       overflow_checks)
    ELSE BodyReturn(b)

\* build_parsed_datetime(tokens, leading_field, value, timezone_tokens): the
\* state at the return (value only feeds the error messages).
build_parsed_datetime(tokens, leading_field, timezone_tokens, overflow_checks) ==
    BuildRun(BuildStart(tokens, leading_field), "body", timezone_tokens,
             overflow_checks)

(***************************************************************************)
(* The inputs.                                                             *)
(***************************************************************************)
\* Legal leading fields, in order.
Fields == <<"Year", "Month", "Day", "Hour", "Minute", "Second">>

\* The longest literal drawn from all strings over Alphabet.
MaxLen == 3
\* The longest fractional digit run of a canonical literal.
MaxFracLen == 10
\* The longest tail, after the '+', of a timezone suffix.
MaxTzLen == 3
\* The longest token sequence handed to build_parsed_datetime directly.
MaxToks == 3

RECURSIVE Repeat(_, _)
Repeat(chr, n) == IF n = 0 THEN <<>> ELSE <<chr>> \o Repeat(chr, n - 1)

RECURSIVE SeqsUpTo(_, _)
SeqsUpTo(S, n) ==
    IF n = 0 THEN {<<>>}
    ELSE LET shorter == SeqsUpTo(S, n - 1)
         IN  shorter \cup {Append(t, x) : t \in {u \in shorter : Len(u) = n - 1}, x \in S}

\* Any character sequence: digits, every punctuation character and a character
\* that is none of them.
Alphabet == {"0", "5", "-", " ", ":", ".", "+", "x"}
ShortLiterals == SeqsUpTo(Alphabet, MaxLen)

\* Canonical literals: a leading field F, count values starting at F (the seventh
\* position of the pattern is the fraction), an optional sign, and the digit run
\* of each value.  Every position has its own run; at most one position, var,
\* holds another run instead.
DefaultRuns ==
    <<<<"1", "2">>, <<"3">>, <<"0", "4">>, <<"5">>, <<"0", "6">>, <<"7">>, <<"5">>>>
AltRuns ==
    {<<"0">>, <<"1", "0">>, Repeat("9", 19), Repeat("9", 20),
     <<"1", "8", "4", "4", "6", "7", "4", "4", "0", "7">> \o
     <<"3", "7", "0", "9", "5", "5", "1", "6", "1", "5">>}
FracRuns ==
    {Append(Repeat("0", n - 1), "5") : n \in 1..MaxFracLen}
        \cup {Repeat("9", n) : n \in 1..MaxFracLen}
        \cup {<<"1", "2", "3", "4", "5", "6", "7", "8", "9">>}

\* The separator written before the value at position p of the pattern (p >= 2).
Separators == <<"", "-", "-", " ", ":", ":", ".">>

RunAt(p, var, run) == IF p = var THEN run ELSE DefaultRuns[p]

RECURSIVE CanonFrom(_, _, _, _)
CanonFrom(p, last, var, run) ==
    IF p > last THEN <<>>
    ELSE RunAt(p, var, run) \o
         (IF p = last THEN <<>> ELSE <<Separators[p + 1]>>) \o
         CanonFrom(p + 1, last, var, run)

\* The canonical literal of the values first..last, signed or not.
Canonical(neg, first, last, var, run) ==
    (IF neg THEN <<"-">> ELSE <<>>) \o CanonFrom(first, last, var, run)

CanonicalLiterals ==
    {Canonical(neg, first, last, 0, <<>>) :
        neg \in BOOLEAN, first \in 1..6, last \in 1..7}
    \cup {Canonical(neg, first, last, var, run) :
        neg \in BOOLEAN, first \in 1..6, last \in 1..6, var \in 1..6, run \in AltRuns}
    \cup {Canonical(neg, first, 7, 7, run) :
        neg \in BOOLEAN, first \in 1..6, run \in FracRuns}

\* Literals with a timezone suffix: a body and a '+' followed by any tail.
TzAlphabet == {"0", "5", ":", "-", "+", " "}
TzBodies == {<<"4", ":", "3", "0">>, <<"7", ".", "5">>, <<"2", " ", "4", ":", "3", ":", "1", ".", "5">>}
TzHours == {<<"0", "5">>, <<"2", "5", "6", "2", "0", "4", "7", "7", "8", "8", "0", "1", "5", "2", "1", "6">>}
TzLiterals ==
    {body \o <<"+">> \o tail : body \in TzBodies, tail \in SeqsUpTo(TzAlphabet, MaxTzLen)}
    \cup {body \o <<"+">> \o h \o <<":">> \o m :
             body \in TzBodies, h \in TzHours, m \in {<<"1", "5">>, <<>>}}

Literals == ShortLiterals \cup CanonicalLiterals \cup TzLiterals

\* Token sequences handed to build_parsed_datetime directly.
TokenAlphabet ==
    {Dash, Space, Colon, Dot, Plus, NumOf(0), NumOf(5), NanosOf(5)}
TokenSeqs == SeqsUpTo(TokenAlphabet, MaxToks)
TzTokenSeqs ==
    {<<>>, <<Dash, Plus, NumOf(1), Colon, NumOf(30)>>, <<Plus, NumOf(5), Colon>>}

\* Calls whose token sequences are longer than the patterns they are paired with.
LongTokenSeqs ==
    {<<NumOf(5), Dot, NanosOf(5), NumOf(5)>>,
     <<Dash, NumOf(5), Colon, NumOf(0), Dot, NanosOf(5), Colon, NumOf(5)>>,
     <<NumOf(5), Colon, NumOf(5)>>}
LongTzTokenSeqs ==
    {<<>>, <<Plus, NumOf(5), Colon, NumOf(0), Colon, NumOf(5)>>,
     <<Dash, Plus, NumOf(5), Colon, NumOf(30), Dash>>}

(***************************************************************************)
(* The state machine: one literal goes through tokenize_interval, one      *)
(* character at a time, and its tokens through build_parsed_datetime, one  *)
(* pair at a time; or a token sequence goes through build_parsed_datetime. *)
(***************************************************************************)
VARIABLES
    value, include_timezone,        \* the arguments of tokenize_interval
    overflow_checks,                \* whether the build panics on overflow
    pc,                             \* "tokenize", "tokenized", "build", "body", "tz", "done"
    i,                              \* characters consumed by the tokenizer loop
    toks, num_buf, is_frac, after_time_value, timezone_toks, ret,
    tokens, leading_field, timezone_tokens,   \* the arguments of build_parsed_datetime
    expected, actual, idx, current_field, pdt, seconds_seen,
    tz_is_positive, hours_seen, minutes_seen, tz_offset, res, msg

inVars == <<value, include_timezone, overflow_checks>>
tokVars == <<i, toks, num_buf, is_frac, after_time_value, timezone_toks, ret>>
argVars == <<tokens, leading_field, timezone_tokens>>
buildVars == <<expected, actual, idx, current_field, pdt, seconds_seen,
               tz_is_positive, hours_seen, minutes_seen, tz_offset, res, msg>>
vars == <<inVars, pc, tokVars, argVars, buildVars>>

\* The tokenizer's locals as a tokenizer state, and their assignment from one.
Tok ==
    [toks |-> toks, num_buf |-> num_buf, is_frac |-> is_frac,
     after_time_value |-> after_time_value, timezone_toks |-> timezone_toks,
     ret |-> ret]

SetTok(s) ==
    /\ toks' = s.toks
    /\ num_buf' = s.num_buf
    /\ is_frac' = s.is_frac
    /\ after_time_value' = s.after_time_value
    /\ timezone_toks' = s.timezone_toks
    /\ ret' = s.ret

\* The locals of build_parsed_datetime as a build state, and their assignment.
Build ==
    [expected |-> expected, actual |-> actual, idx |-> idx,
     current_field |-> current_field, pdt |-> pdt, seconds_seen |-> seconds_seen,
     tz_is_positive |-> tz_is_positive, hours_seen |-> hours_seen,
     minutes_seen |-> minutes_seen, tz_offset |-> tz_offset, res |-> res,
     msg |-> msg]

SetBuild(b) ==
    /\ expected' = b.expected
    /\ actual' = b.actual
    /\ idx' = b.idx
    /\ current_field' = b.current_field
    /\ pdt' = b.pdt
    /\ seconds_seen' = b.seconds_seen
    /\ tz_is_positive' = b.tz_is_positive
    /\ hours_seen' = b.hours_seen
    /\ minutes_seen' = b.minutes_seen
    /\ tz_offset' = b.tz_offset
    /\ res' = b.res
    /\ msg' = b.msg

\* A literal is about to be tokenized.
InitLiteral ==
    /\ value \in Literals
    /\ include_timezone \in BOOLEAN
    /\ pc = "tokenize"
    /\ tokens = <<>> /\ leading_field = "None" /\ timezone_tokens = <<>>

\* A token sequence is about to be handed to build_parsed_datetime.
InitTokens ==
    /\ value = <<>>
    /\ include_timezone = FALSE
    /\ pc = "build"
    /\ leading_field \in DateTimeField
    /\ \/ tokens \in TokenSeqs /\ timezone_tokens \in TzTokenSeqs
       \/ tokens \in LongTokenSeqs /\ timezone_tokens \in LongTzTokenSeqs

Init ==
    /\ overflow_checks \in BOOLEAN
    /\ i = 0
    /\ toks = TokStart.toks
    /\ num_buf = TokStart.num_buf
    /\ is_frac = TokStart.is_frac
    /\ after_time_value = TokStart.after_time_value
    /\ timezone_toks = TokStart.timezone_toks
    /\ ret = TokStart.ret
    /\ expected = BuildIdle.expected
    /\ actual = BuildIdle.actual
    /\ idx = BuildIdle.idx
    /\ current_field = BuildIdle.current_field
    /\ pdt = BuildIdle.pdt
    /\ seconds_seen = BuildIdle.seconds_seen
    /\ tz_is_positive = BuildIdle.tz_is_positive
    /\ hours_seen = BuildIdle.hours_seen
    /\ minutes_seen = BuildIdle.minutes_seen
    /\ tz_offset = BuildIdle.tz_offset
    /\ res = BuildIdle.res
    /\ msg = BuildIdle.msg
    /\ (InitLiteral \/ InitTokens)

\* One iteration of the loop of tokenize_interval.
TokenizeChar ==
    /\ pc = "tokenize"
    /\ i < Len(value)
    /\ LET s == IntervalChar(Tok, value[i + 1], SubSeq(value, i + 1, Len(value)),
                             include_timezone, overflow_checks)
       IN  /\ SetTok(s)
           /\ pc' = IF s.ret = "none" THEN "tokenize" ELSE "tokenized"
    /\ i' = i + 1
    /\ UNCHANGED <<inVars, argVars, buildVars>>

\* The end of the loop of tokenize_interval and its return.
TokenizeEnd ==
    /\ pc = "tokenize"
    /\ i = Len(value)
    /\ SetTok(IntervalEnd(Tok, overflow_checks))
    /\ pc' = "tokenized"
    /\ UNCHANGED <<inVars, i, argVars, buildVars>>

\* The caller hands the two token sequences of a successful tokenize_interval to
\* build_parsed_datetime, with the leading field of the literal.
Handoff ==
    /\ pc = "tokenized"
    /\ ret = "Ok"
    /\ \E f \in DateTimeField : leading_field' = f
    /\ tokens' = toks
    /\ timezone_tokens' = timezone_toks
    /\ pc' = "build"
    /\ UNCHANGED <<inVars, tokVars, buildVars>>

\* The entry of build_parsed_datetime.
BuildEnter ==
    /\ pc = "build"
    /\ SetBuild(BuildStart(tokens, leading_field))
    /\ pc' = "body"
    /\ UNCHANGED <<inVars, tokVars, argVars>>

\* One iteration of the body loop.
BodyStep ==
    /\ pc = "body"
    /\ MorePairs(Build)
    /\ LET b == BodyPair(Build)
       IN  /\ SetBuild(b)
           /\ pc' = IF b.res = "none" THEN "body" ELSE "done"
    /\ UNCHANGED <<inVars, tokVars, argVars>>

\* After the body loop with timezone tokens: the entry of the timezone pass.
TzEnter ==
    /\ pc = "body"
    /\ ~MorePairs(Build)
    /\ timezone_tokens # <<>>
    /\ SetBuild(TzStart(Build, timezone_tokens))
    /\ pc' = "tz"
    /\ UNCHANGED <<inVars, tokVars, argVars>>

\* One iteration of the timezone loop.
TzStep ==
    /\ pc = "tz"
    /\ MorePairs(Build)
    /\ LET b == TzPair(Build, overflow_checks)
       IN  /\ SetBuild(b)
           /\ pc' = IF b.res = "none" THEN "tz" ELSE "done"
    /\ UNCHANGED <<inVars, tokVars, argVars>>

\* The return of build_parsed_datetime, after the body loop when there are no
\* timezone tokens and else after the timezone loop.
BuildReturn ==
    /\ ~MorePairs(Build)
    /\ pc = "tz" \/ (pc = "body" /\ timezone_tokens = <<>>)
    /\ SetBuild(IF pc = "tz" THEN TzReturn(Build, overflow_checks)
                ELSE BodyReturn(Build))
    /\ pc' = "done"
    /\ UNCHANGED <<inVars, tokVars, argVars>>

Next ==
    \/ TokenizeChar
    \/ TokenizeEnd
    \/ Handoff
    \/ BuildEnter
    \/ BodyStep
    \/ TzEnter
    \/ TzStep
    \/ BuildReturn

Spec == Init /\ [][Next]_vars

(***************************************************************************)
(* Vocabulary of the properties: what a literal says, read off its text.   *)
(***************************************************************************)
\* The value of a run of at most nine digits.
RECURSIVE DecValue(_)
DecValue(run) ==
    IF run = <<>> THEN 0
    ELSE DecValue(SubSeq(run, 1, Len(run) - 1)) * 10 + DigitVal(run[Len(run)])

RECURSIVE TenTo(_)
TenTo(n) == IF n = 0 THEN 1 ELSE 10 * TenTo(n - 1)

\* The literal without its optional leading '-'.
Unsigned(lit) == IF lit # <<>> /\ lit[1] = "-" THEN Tail(lit) ELSE lit

\* The text split on every character that is no digit: the digit runs, empty
\* ones included, and the characters they were split on.
RECURSIVE SplitRuns(_, _)
SplitRuns(text, cur) ==
    IF text = <<>> THEN <<cur>>
    ELSE IF IsDigit(Head(text)) THEN SplitRuns(Tail(text), Append(cur, Head(text)))
    ELSE <<cur>> \o SplitRuns(Tail(text), <<>>)

NonDigit(chr) == ~IsDigit(chr)
SplitOn(text) == SelectSeq(text, NonDigit)

\* The separators of the canonical pattern: CanonSeps[p] stands between the
\* values at positions p and p + 1 (1 = year, ..., 6 = second, 7 = fraction).
CanonSeps == <<"-", "-", " ", ":", ":", ".">>

AllZero(run) == \A k \in 1..Len(run) : run[k] = "0"

RECURSIVE StripZeros(_)
StripZeros(run) ==
    IF run # <<>> /\ Head(run) = "0" THEN StripZeros(Tail(run)) ELSE run

\* Whether a digit run is the decimal notation of a number below 2^64.
U64MaxDigits ==
    <<"1", "8", "4", "4", "6", "7", "4", "4", "0", "7">> \o
    <<"3", "7", "0", "9", "5", "5", "1", "6", "1", "5">>
RECURSIVE DigitsLeq(_, _)
DigitsLeq(a, b) ==
    \/ a = <<>>
    \/ DigitVal(Head(a)) < DigitVal(Head(b))
    \/ Head(a) = Head(b) /\ DigitsLeq(Tail(a), Tail(b))
FitsU64(run) ==
    LET d == StripZeros(run)
    IN  Len(d) < Len(U64MaxDigits) \/ (Len(d) = Len(U64MaxDigits) /\ DigitsLeq(d, U64MaxDigits))

\* Position of a legal leading field in the canonical order (Year = 1).
FieldPos(f) == CHOOSE p \in 1..6 : Fields[p] = f

\* lit is an optional '-' and a non-empty prefix, ending on a value, of the
\* canonical pattern starting at position first: non-empty digit runs, a fraction
\* of 1..9 digits, month and day at least 1.
IsCanonical(lit, first) ==
    LET runs == SplitRuns(Unsigned(lit), <<>>)
        seps == SplitOn(Unsigned(lit))
        n == Len(runs)
    IN  /\ first + n - 1 <= 7
        /\ \A k \in 1..n : runs[k] # <<>>
        /\ \A k \in 1..(n - 1) : seps[k] = CanonSeps[first + k - 1]
        /\ \A k \in 1..n :
              /\ first + k - 1 = 7 => Len(runs[k]) <= 9
              /\ first + k - 1 \in {2, 3} => ~AllZero(runs[k])

\* Every run of lit that is no fraction fits the u64 of a Num token.
RunsFit(lit, first) ==
    LET runs == SplitRuns(Unsigned(lit), <<>>)
    IN  \A k \in 1..Len(runs) : first + k - 1 # 7 => FitsU64(runs[k])

\* The value a run at position p stands for: nanoseconds for the fraction, the
\* number itself elsewhere.
RunValue(run, p) ==
    IF p = 7 THEN FromInt(DecValue(run) * TenTo(9 - Len(run)), U32Limbs)
    ELSE IF Len(run) <= 9 THEN FromInt(DecValue(run), U64Limbs)
    ELSE ParseUnsigned(run, U64Limbs).v

\* The result a canonical literal stands for.
CanonicalResult(lit, first) ==
    LET runs == SplitRuns(Unsigned(lit), <<>>)
        At(p) == IF p >= first /\ p - first + 1 <= Len(runs)
                 THEN Some(RunValue(runs[p - first + 1], p)) ELSE None
    IN  [is_positive |-> Unsigned(lit) = lit,
         year |-> At(1), month |-> At(2), day |-> At(3), hour |-> At(4),
         minute |-> At(5), second |-> At(6), nano |-> At(7),
         timezone_offset_second |-> None]

LegalFields == {Fields[p] : p \in 1..6}

\* The pipeline ended: the tokenizer failed, or build_parsed_datetime returned.
Ended == (pc = "tokenized" /\ ret # "Ok") \/ pc = "done"

\* The pipeline ended well for the leading field at position first.
EndsWell(first) ==
    /\ pc = "tokenized" => ret = "Ok"
    /\ pc = "done" /\ leading_field = Fields[first] =>
          res = "Ok" /\ pdt = CanonicalResult(value, first)

(***************************************************************************)
(* C1.                                                                     *)
(***************************************************************************)
\* C1 as claimed: every canonical literal from a leading field F, tokenized
\* without timezone and built with F, succeeds, and the fields set are exactly
\* the consecutive fields from F, holding the values of the digit runs in order.
EndToEndAnyRun ==
    \A first \in 1..6 :
        pc \in {"tokenized", "done"} /\ value # <<>> /\ ~include_timezone
            /\ IsCanonical(value, first)
        => EndsWell(first)

\* C1 amended: the same for canonical literals whose digit runs, the fraction
\* apart, are each at most 18446744073709551615 (they fit the u64 of Num).
EndToEnd ==
    \A first \in 1..6 :
        pc \in {"tokenized", "done"} /\ value # <<>> /\ ~include_timezone
            /\ IsCanonical(value, first) /\ RunsFit(value, first)
        => EndsWell(first)

\* A signed literal of all seven values was built from Year.
EndToEndWitness ==
    /\ pc = "done" /\ res = "Ok" /\ leading_field = "Year" /\ ~include_timezone
    /\ IsCanonical(value, 1) /\ RunsFit(value, 1)
    /\ Len(SplitRuns(Unsigned(value), <<>>)) = 7
    /\ ~pdt.is_positive /\ pdt.nano = Some(FromInt(500000000, U32Limbs))
    /\ pdt.year = Some(FromInt(12, U64Limbs))

(***************************************************************************)
(* C2.                                                                     *)
(***************************************************************************)
HasColon(text) == \E k \in 1..Len(text) : text[k] = ":"

\* The tokenizer loop is about to scan the character chr.
Scanning(chr) == pc = "tokenize" /\ i < Len(value) /\ value[i + 1] = chr

\* The text scanned so far.
Scanned == SubSeq(value, 1, i)

\* C2: a '+' scanned when include_timezone is false or no ':' was scanned before
\* it is rejected with a TokenizerError and no tokens are returned; a non-empty
\* timezone token sequence is returned only when include_timezone is true and a
\* ':' precedes the '+'.
PlusRejected ==
    /\ [][Scanning("+") /\ (~include_timezone \/ ~HasColon(Scanned))
            => pc' = "tokenized" /\ ret' = "TokenizerError"
               /\ toks' = <<>> /\ timezone_toks' = <<>>]_vars
    /\ [](ret = "Ok" /\ timezone_toks # <<>>
            => /\ include_timezone
               /\ i >= 1 /\ value[i] = "+" /\ HasColon(SubSeq(value, 1, i - 1)))

\* A '+' after digits was rejected for exactly one of the two reasons: no ':'
\* before it although include_timezone is true, or include_timezone false
\* although a ':' precedes it.
PlusRejectedWitness ==
    /\ pc = "tokenized" /\ ret = "TokenizerError" /\ i >= 2 /\ value[i] = "+"
    /\ IsDigit(value[i - 1])
    /\ include_timezone # HasColon(SubSeq(value, 1, i - 1))

(***************************************************************************)
(* C3.                                                                     *)
(***************************************************************************)
\* C3: when tokenize_interval returns tokens after a '+', it returned at the
\* '+': the body tokens are the tokens of the text before the '+' (ending with
\* the flushed digits), the timezone tokens are tokenize_timezone of the text
\* from the '+' on and begin with Plus; "4:30+05:15" gives [Num(4), Colon,
\* Num(30)] and [Plus, Num(5), Colon, Num(15)].
PlusSplits ==
    /\ pc = "tokenized" /\ ret = "Ok" /\ (\E k \in 1..Len(value) : value[k] = "+")
         => LET at == CHOOSE k \in 1..Len(value) :
                          value[k] = "+" /\ \A j \in 1..(k - 1) : value[j] # "+"
                before == tokenize_interval(SubSeq(value, 1, at - 1), include_timezone,
                                            overflow_checks)
                from == tokenize_timezone(SubSeq(value, at, Len(value)))
            IN  /\ i = at
                /\ IsDigit(value[at - 1])
                /\ before.ret = "Ok" /\ toks = before.toks
                /\ toks[Len(toks)].k \in {"Num", "Nanos"}
                /\ from.ret = "Ok" /\ timezone_toks = from.toks
                /\ Head(timezone_toks) = Plus
    /\ pc = "tokenized" /\ include_timezone
         /\ value = <<"4", ":", "3", "0", "+", "0", "5", ":", "1", "5">>
         => /\ ret = "Ok"
            /\ toks = <<NumOf(4), Colon, NumOf(30)>>
            /\ timezone_toks = <<Plus, NumOf(5), Colon, NumOf(15)>>

\* A literal with a fraction before the '+' and digits and punctuation after it
\* was split.
PlusSplitsWitness ==
    /\ pc = "tokenized" /\ ret = "Ok" /\ i < Len(value)
    /\ toks # <<>> /\ toks[Len(toks)].k = "Nanos"
    /\ Len(timezone_toks) >= 3

(***************************************************************************)
(* C4.                                                                     *)
(***************************************************************************)
\* The tokenizer loop is about to flush a non-empty buffer: at a punctuation
\* character, at a '+' it accepts, or at the end of the literal.
Flushing ==
    /\ pc = "tokenize" /\ num_buf # <<>>
    /\ \/ i = Len(value)
       \/ i < Len(value) /\ value[i + 1] \in {"-", " ", ":", "."}
       \/ i < Len(value) /\ value[i + 1] = "+" /\ include_timezone /\ after_time_value

\* C4: a buffer of L digits, 1 <= L <= 9, flushed with the fractional flag set
\* yields Nanos(raw * 10^(9-L)), which is below 1,000,000,000 and is computed
\* without overflow; flushed with the flag clear it yields Num(raw); "5.5" gives
\* [Num(5), Dot, Nanos(500000000)].
FlushScales ==
    /\ [][Flushing /\ Len(num_buf) <= 9
            => LET L == Len(num_buf)
                   raw == DecValue(num_buf)
                   tok == IF is_frac THEN NanosOf(raw * TenTo(9 - L)) ELSE NumOf(raw)
               IN  /\ is_frac => raw * TenTo(9 - L) < Billion
                   /\ ret' # "panic"
                   /\ ret' = "ParserError" => value[i + 1] = "+"
                   /\ ret' \in {"none", "Ok"} =>
                         /\ Len(toks') > Len(toks)
                         /\ SubSeq(toks', 1, Len(toks)) = toks
                         /\ toks'[Len(toks) + 1] = tok]_vars
    /\ [](pc = "tokenized" /\ value = <<"5", ".", "5">>
            => ret = "Ok" /\ toks = <<NumOf(5), Dot, NanosOf(500000000)>>)

\* A fraction of two digits, or one of nine, was scaled.
FlushScalesWitness ==
    /\ pc = "tokenized" /\ ret = "Ok" /\ toks # <<>>
    /\ toks[Len(toks)] \in {NanosOf(123456789), NanosOf(50000000)}

(***************************************************************************)
(* C5.                                                                     *)
(***************************************************************************)
\* Whether lit holds a '.' followed by at least len digits.
HasFraction(lit, len) ==
    \E p \in 1..Len(lit) :
        /\ lit[p] = "."
        /\ p + len <= Len(lit)
        /\ \A k \in 1..len : IsDigit(lit[p + k])

\* C5: a literal with a fractional digit run longer than 9 digits is rejected:
\* tokenize_interval returns an error for it (it neither returns tokens nor
\* panics).
LongFractionRejected ==
    pc = "tokenized" /\ HasFraction(value, 10) => ret \in {"ParserError", "TokenizerError"}

(***************************************************************************)
(* C6.                                                                     *)
(***************************************************************************)
\* The values of the Num tokens of a token sequence, in order.
IsNumTok(tok) == tok.k = "Num"
NumValues(tokseq) ==
    LET nums == SelectSeq(tokseq, IsNumTok) IN [k \in 1..Len(nums) |-> nums[k].v]

\* The values of the non-empty digit runs of a text, in order.
NonEmpty(run) == run # <<>>
RunValues(text) ==
    LET runs == SelectSeq(SplitRuns(text, <<>>), NonEmpty)
    IN  [k \in 1..Len(runs) |-> RunValue(runs[k], 0)]

\* C6: tokenize_timezone discards no buffered digits: every maximal digit run of
\* the suffix appears as one Num of the timezone tokens, in order.
TimezoneRunsKept ==
    pc = "tokenized" /\ ret = "Ok" /\ timezone_toks # <<>>
        => NumValues(timezone_toks) = RunValues(SubSeq(value, i, Len(value)))

(***************************************************************************)
(* C7.                                                                     *)
(***************************************************************************)
\* The kinds of the canonical pattern, and the offset of each legal leading field.
CanonicalKinds ==
    <<"Num", "Dash", "Num", "Dash", "Num", "Space", "Num", "Colon", "Num", "Colon",
      "Num", "Dot", "Nanos">>
CanonicalOffsets == <<0, 2, 4, 6, 8, 10>>

Kinds(tokseq) == [k \in 1..Len(tokseq) |-> tokseq[k].k]

\* The values (Num or Nanos) among the first n kinds of the canonical pattern.
ValuesBefore(n) ==
    Cardinality({k \in 1..n : CanonicalKinds[k] \in {"Num", "Nanos"}})

\* build_parsed_datetime has just derived the expected pattern of its leading field.
Derived == pc = "body" /\ idx = 0

\* C7: the expected pattern of a legal leading field F is the suffix of the
\* 13-element canonical pattern at offset 0, 2, 4, 6, 8, 10 for Year..Second; it
\* begins with Num, ends with Nanos, its head is the position of F, Year gives 13
\* elements and Day 9.
ExpectedIsSuffix ==
    Derived /\ leading_field \in LegalFields
        => LET off == CanonicalOffsets[FieldPos(leading_field)]
           IN  /\ Kinds(expected) = SubSeq(CanonicalKinds, off + 1, 13)
               /\ Len(expected) = 13 - off
               /\ expected[1].k = "Num" /\ expected[Len(expected)].k = "Nanos"
               /\ ValuesBefore(off) = FieldPos(leading_field) - 1
               /\ leading_field = "Year" => Len(expected) = 13
               /\ leading_field = "Day" => Len(expected) = 9

\* The pattern of Day was derived for a token sequence to pair with it.
ExpectedIsSuffixWitness ==
    Derived /\ leading_field = "Day" /\ Len(expected) = 9 /\ actual # <<>>

(***************************************************************************)
(* C8.                                                                     *)
(***************************************************************************)
\* C8: TimezoneOffsetSecond is rejected as a leading field: no expected pattern
\* is derived for it and build_parsed_datetime returns no result for it.
TimezoneFieldRejected ==
    leading_field = "TimezoneOffsetSecond"
        => ~(pc = "done" /\ res = "Ok") /\ ~(Derived /\ expected # <<>>)

(***************************************************************************)
(* C9.                                                                     *)
(***************************************************************************)
\* The outcome of build_parsed_datetime on the tokens after the leading Dash,
\* compared with the outcome reached: the same error, or the same fields with
\* is_positive false.
SameButNegative ==
    LET rest == build_parsed_datetime(Tail(tokens), leading_field, timezone_tokens,
                                      overflow_checks)
    IN  /\ res = rest.res
        /\ msg = rest.msg
        /\ res = "Ok" => pdt = [rest.pdt EXCEPT !.is_positive = FALSE]

\* is_positive is false iff the first token is Dash; [Dash, Num(5)] with Month
\* gives is_positive false, month 5 and nothing else.
SignFromFirstToken ==
    /\ pc = "done" /\ res = "Ok"
         => (~pdt.is_positive <=> tokens # <<>> /\ tokens[1] = Dash)
    /\ pc = "done" /\ tokens = <<Dash, NumOf(5)>> /\ leading_field = "Month"
         /\ timezone_tokens = <<>>
         => res = "Ok"
            /\ pdt = [DefaultParsedDateTime EXCEPT
                         !.is_positive = FALSE, !.month = Some(FromInt(5, U64Limbs))]

\* C9 as claimed: for every token sequence T and legal leading field, the
\* outcome for [Dash] ++ T is the outcome for T with only is_positive false.
DashFlipsAnyRest ==
    /\ SignFromFirstToken
    /\ pc = "done" /\ leading_field \in LegalFields
         /\ tokens # <<>> /\ tokens[1] = Dash
         => SameButNegative

\* C9 amended: the same for every token sequence T that does not itself begin
\* with Dash.
DashFlips ==
    /\ SignFromFirstToken
    /\ pc = "done" /\ leading_field \in LegalFields
         /\ tokens # <<>> /\ tokens[1] = Dash
         /\ ~(Len(tokens) >= 2 /\ tokens[2] = Dash)
         => SameButNegative

\* A signed sequence with a Dash further on was built.
DashFlipsWitness ==
    /\ pc = "done" /\ res = "Ok" /\ leading_field = "Year"
    /\ Len(tokens) >= 4 /\ tokens[1] = Dash /\ tokens[3] = Dash
    /\ ~pdt.is_positive /\ pdt.month # None

(***************************************************************************)
(* C10.                                                                    *)
(***************************************************************************)
\* The body loop is about to pair a Num of value zero with the Num at position
\* pos of the canonical pattern (1 = year, ..., 6 = second).
PairingZeroAt(pos) ==
    /\ pc = "body" /\ MorePairs(Build) /\ leading_field \in LegalFields
    /\ actual[idx + 1] = NumOf(0)
    /\ idx % 2 = 0 /\ FieldPos(leading_field) + idx \div 2 = pos

\* What the step pairing a zero does: a failure at Month and at Day, the zero
\* written elsewhere.
ZeroStep ==
    /\ PairingZeroAt(2) =>
          (pc' = "done" /\ res' = "ParserError" /\ msg' = "Invalid Month")
    /\ PairingZeroAt(3) =>
          (pc' = "done" /\ res' = "ParserError" /\ msg' = "Invalid Day")
    /\ PairingZeroAt(1) => (res' = "none" /\ pdt'.year = Some(Zero(U64Limbs)))
    /\ PairingZeroAt(4) => (res' = "none" /\ pdt'.hour = Some(Zero(U64Limbs)))
    /\ PairingZeroAt(5) => (res' = "none" /\ pdt'.minute = Some(Zero(U64Limbs)))
    /\ PairingZeroAt(6) => (res' = "none" /\ pdt'.second = Some(Zero(U64Limbs)))

\* C10: a Num below 1 assigned to Month or to Day fails with a ParserError, from
\* every leading field; a successful result has month and day at least 1 when
\* set; Year, Hour, Minute and Second accept 0.
MonthDayAtLeastOne ==
    /\ [][ZeroStep]_vars
    /\ [](pc = "done" /\ res = "Ok" /\ leading_field \in LegalFields
            => pdt.month # Some(Zero(U64Limbs)) /\ pdt.day # Some(Zero(U64Limbs)))

\* A day of zero, reached from Year, failed the call.
MonthDayAtLeastOneWitness ==
    /\ pc = "done" /\ res = "ParserError" /\ msg = "Invalid Day"
    /\ leading_field = "Year" /\ Len(tokens) >= 5 /\ tokens[5] = NumOf(0)


(***************************************************************************)
(* C11: a further Num after Second was recorded.                           *)
(***************************************************************************)
\* The body loop is about to pair a Num although Second is already recorded and
\* the cursor is at Second.
FurtherSecondNum ==
    /\ pc = "body" /\ MorePairs(Build) /\ leading_field \in LegalFields
    /\ current_field = "Second" /\ seconds_seen = 1 /\ pdt.second # None
    /\ actual[idx + 1].k = "Num"

FurtherSecondNumStep ==
    FurtherSecondNum =>
        (pc' = "done" /\ res' = "ParserError"
            /\ msg' = "Too many numbers to parse as a second")

\* C11: when Second is already recorded and the body tokens supply a further
\* Num destined for Second, build_parsed_datetime fails with the ParserError
\* "Too many numbers to parse as a second".
TooManySeconds == [][FurtherSecondNumStep]_vars


(***************************************************************************)
(* C12: structural mismatches.                                             *)
(***************************************************************************)
\* A token sequence without its optional leading Dash.
SkipDash(tokseq) ==
    IF tokseq # <<>> /\ tokseq[1].k = "Dash" THEN Tail(tokseq) ELSE tokseq

\* tokseq is no longer than the pattern and agrees with it kind for kind.
KindPrefix(tokseq, kinds) ==
    /\ Len(tokseq) <= Len(kinds)
    /\ \A k \in 1..Len(tokseq) : tokseq[k].k = kinds[k]

\* The kinds of the expected pattern of a legal leading field, and of the
\* timezone pattern.
PatternKinds(first) ==
    SubSeq(CanonicalKinds, CanonicalOffsets[FieldPos(first)] + 1, 13)
TimezoneKinds == <<"Plus", "Num", "Colon", "Num">>

\* C12: build_parsed_datetime succeeds only if the body tokens, after the
\* optional leading Dash, match kind for kind and over their whole length a
\* prefix of the expected pattern of the leading field, and the timezone tokens
\* likewise a prefix of [Plus, Num, Colon, Num]; longer sequences are rejected.
MismatchFails ==
    pc = "done" /\ res = "Ok" /\ leading_field \in LegalFields
        => /\ KindPrefix(SkipDash(tokens), PatternKinds(leading_field))
           /\ KindPrefix(SkipDash(timezone_tokens), TimezoneKinds)


(***************************************************************************)
(* C13: the timezone pass.                                                 *)
(***************************************************************************)
\* h * 3600 + m * 60 computed exactly, on six limbs.
ExactOffset(h, m) ==
    LET hs == Low(MulAddC(h \o <<0, 0>>, 3600, 0))
        ms == Low(MulAddC(m \o <<0, 0>>, 60, 0))
    IN  Low(AddC(hs, ms, 0))

\* A six-limb natural number that an i64 holds.
FitsI64(w) == w[5] = 0 /\ w[6] = 0 /\ w[4] < 2^15

\* timezone_offset_second is the offset of the timezone tokens
\* [Plus, Num(h), Colon, Num(m)], negated under a leading Dash.
OffsetIsSum ==
    LET tz == SkipDash(timezone_tokens)
        exact == ExactOffset(tz[2].v, tz[4].v)
        low == SubSeq(exact, 1, 4)
    IN  /\ FitsI64(exact)
        /\ pdt.timezone_offset_second =
               Some(IF timezone_tokens[1].k = "Dash" THEN Negate(low).v ELSE low)

\* The fields that the body pass writes.
BodyFields(p) ==
    <<p.is_positive, p.year, p.month, p.day, p.hour, p.minute, p.second, p.nano>>

\* C13: when timezone_tokens matches [Plus, Num(h), Colon, Num(m)], optionally
\* after a Dash, a successful build_parsed_datetime sets timezone_offset_second
\* to h * 3600 + m * 60, negated under the Dash; without timezone tokens and
\* with a legal leading field it stays unset; the timezone pass leaves the body
\* fields as the body pass wrote them.
TimezoneOffsetIsSum ==
    pc = "done" /\ res = "Ok"
        => /\ Kinds(SkipDash(timezone_tokens)) = TimezoneKinds => OffsetIsSum
           /\ timezone_tokens = <<>> /\ leading_field \in LegalFields
                 => pdt.timezone_offset_second = None
           /\ BodyFields(pdt) =
                 BodyFields(build_parsed_datetime(tokens, leading_field, <<>>,
                                                  overflow_checks).pdt)


(***************************************************************************)
(* C14: the round trip from the tokenizer to the body pass.                *)
(***************************************************************************)
\* A literal was accepted by tokenize_interval and its tokens went through
\* build_parsed_datetime with a legal leading field.
RoundTripDone ==
    pc = "done" /\ ret = "Ok" /\ leading_field \in LegalFields

\* The validation of the body tokens failed (a failure of the timezone pass is
\* not one of the body tokens).
BodyFailed ==
    /\ res \in {"ParserError", "panic"}
    /\ msg \notin {"Invalid interval time zone part", "arithmetic overflow"}

\* The positions that the zip of the body tokens and the pattern pairs.
Paired(body, first) ==
    {k \in 1..Len(body) : k <= 13 - CanonicalOffsets[FieldPos(first)]}

\* The body tokens agree in kind with the pattern wherever they are paired.
BodyAgrees(body, first) ==
    \A k \in Paired(body, first) : body[k].k = PatternKinds(first)[k]

\* A zero is paired with the month (3rd) or the day (5th) of the canonical pattern.
ZeroUnit(body, first) ==
    \E k \in Paired(body, first) :
        /\ CanonicalOffsets[FieldPos(first)] + k \in {3, 5}
        /\ body[k].k = "Num" /\ IsZero(body[k].v)

\* C14 as claimed: for any literal that tokenize_interval accepts and any
\* leading field in Year..Second, validating the produced body tokens against
\* the expected pattern of that field never fails.
RoundTripAnyLiteral == RoundTripDone => ~BodyFailed

\* C14 amended: it never fails when the body tokens, after one optional leading
\* Dash, agree in kind with the expected pattern at every position both have and
\* no Num at the month or day position is 0; otherwise it fails.
RoundTrip ==
    RoundTripDone
        => (~BodyFailed <=> /\ BodyAgrees(SkipDash(tokens), leading_field)
                            /\ ~ZeroUnit(SkipDash(tokens), leading_field))

\* An accepted literal with a time of day was validated from Hour.
RoundTripWitness ==
    /\ RoundTripDone /\ res = "Ok" /\ leading_field = "Hour"
    /\ Len(tokens) >= 3 /\ tokens[2] = Colon /\ pdt.minute # None


(***************************************************************************)
(* C15: the cursor of the body pass.                                       *)
(***************************************************************************)
\* The (Num, Num) pairs among the first n pairs of the body loop.
NumPairs(n) == Cardinality({j \in 1..n : expected[j].k = "Num"})

\* The positions (1 = year, ..., 6 = second) of the fields written so far.
Written ==
    {p \in 1..6 : <<pdt.year, pdt.month, pdt.day, pdt.hour, pdt.minute,
                     pdt.second>>[p] # None}

\* The body loop is about to process a (Num, Num) pair.
AtNumPair ==
    /\ pc = "body" /\ MorePairs(Build)
    /\ actual[idx + 1].k = "Num" /\ expected[idx + 1].k = "Num"

\* In every state of a call with a legal leading field.
CursorState ==
    LET first == FieldPos(leading_field)
    IN  /\ AtNumPair =>
              /\ first + NumPairs(idx) <= 6
              /\ current_field = Fields[first + NumPairs(idx)]
              /\ first + NumPairs(idx) =
                    (CanonicalOffsets[first] + idx) \div 2 + 1
              /\ CanonicalKinds[CanonicalOffsets[first] + idx + 1] = "Num"
        /\ msg # "Exhausted day iterator"
        /\ pc = "body" => Written = first..(first + NumPairs(idx) - 1)
        /\ \E n \in 0..6 : Written = first..(first + n - 1)
        /\ pdt.nano # None => pdt.second # None
        /\ pdt.timezone_offset_second # None => pc = "done"

\* In every step of the body loop that does not fail: the cursor stays or moves
\* to the next field, and a field that was written keeps its value.
CursorStep ==
    pc = "body" /\ leading_field \in LegalFields /\ res' \in {"none", "Ok"}
        => /\ pc' = "body" =>
                 FieldPos(current_field') - FieldPos(current_field) \in {0, 1}
           /\ \A p \in Written :
                 <<pdt.year, pdt.month, pdt.day, pdt.hour, pdt.minute,
                   pdt.second>>[p] =
                 <<pdt'.year, pdt'.month, pdt'.day, pdt'.hour, pdt'.minute,
                   pdt'.second>>[p]
           /\ pdt.nano # None => pdt'.nano = pdt.nano

\* C15: for every leading field F in Year..Second and every token sequence,
\* when the k-th (Num, Num) pair is processed the cursor is the k-th field
\* counting from F, the field of that position of the canonical pattern; the
\* cursor only moves forward and 'Exhausted day iterator' never happens; each
\* field is written at most once, the written fields are a contiguous run
\* starting at F, and nano is set only if second is.
CursorInvariant ==
    /\ [](leading_field \in LegalFields => CursorState)
    /\ [][CursorStep]_vars

\* From Hour, the cursor went through Minute to Second and stayed there.
CursorInvariantWitness ==
    /\ pc = "body" /\ leading_field = "Hour" /\ current_field = "Second"
    /\ seconds_seen = 1 /\ Written = {4, 5, 6}


(***************************************************************************)
(* C16: the shape of the body tokens of tokenize_interval.                 *)
(***************************************************************************)
IsValue(tok) == tok.k \in {"Num", "Nanos"}

\* The literal up to its first '+', which is the part that yields body tokens.
RECURSIVE BodyText(_)
BodyText(text) ==
    IF text = <<>> \/ text[1] = "+" THEN <<>>
    ELSE <<text[1]>> \o BodyText(Tail(text))

\* The places of a text where a digit directly follows a '.'.
FractionStarts(text) ==
    {j \in 1..Len(text) - 1 : text[j] = "." /\ IsDigit(text[j + 1])}

\* Space, Colon and Dot follow a value, values are never adjacent, and a value
\* is a Nanos exactly when it follows a Dot.
ShapeOk(tokseq) ==
    /\ \A k \in 1..Len(tokseq) :
          tokseq[k].k \in {"Space", "Colon", "Dot"}
              => k > 1 /\ IsValue(tokseq[k - 1])
    /\ \A k \in 1..Len(tokseq) - 1 : ~(IsValue(tokseq[k]) /\ IsValue(tokseq[k + 1]))
    /\ \A k \in 1..Len(tokseq) :
          IsValue(tokseq[k])
              => (tokseq[k].k = "Nanos" <=> k > 1 /\ tokseq[k - 1].k = "Dot")
    /\ \A k \in 1..Len(tokseq) : tokseq[k].k # "Plus"

\* What a separator arriving with an empty digit buffer does.
EmptyBufferStep ==
    /\ \A chr \in {" ", ":", "."} :
          Scanning(chr) /\ num_buf = <<>> => ret' = "ParserError" /\ toks' = <<>>
    /\ Scanning("+") /\ include_timezone /\ after_time_value /\ num_buf = <<>>
          => ret' = "ParserError" /\ toks' = <<>>
    /\ Scanning("-") /\ num_buf = <<>>
          => ret' = "none" /\ toks' = Append(toks, Dash)

\* C16: in every body token sequence that tokenize_interval returns, each
\* Space, Colon and Dot directly follows a value token, no two value tokens are
\* adjacent, and a Nanos occurs exactly where a digit run directly follows a
\* Dot; a ' ', ':', '.' or accepted '+' arriving with an empty digit buffer fails
\* the call, and only '-' tolerates an empty buffer.
BodyShape ==
    /\ [](ret = "Ok" =>
            /\ ShapeOk(toks)
            /\ Cardinality({k \in 1..Len(toks) : toks[k].k = "Nanos"}) =
                  Cardinality(FractionStarts(BodyText(value))))
    /\ [][EmptyBufferStep]_vars

\* A literal with a date, a time and a fraction was tokenized.
BodyShapeWitness ==
    /\ pc = "tokenized" /\ ret = "Ok" /\ Len(toks) = 13
    /\ toks[13].k = "Nanos" /\ toks[12] = Dot /\ toks[2] = Dash /\ toks[6] = Space


(***************************************************************************)
(* C17: the sign of the timezone offset of the whole pipeline.             *)
(***************************************************************************)
\* The timezone suffix of a literal: the text from its first '+' on.
RECURSIVE Suffix(_)
Suffix(text) ==
    IF text = <<>> \/ text[1] = "+" THEN text ELSE Suffix(Tail(text))

\* C17: for any literal run through tokenize_interval with include_timezone
\* and then build_parsed_datetime with a leading field in Year..Second, the
\* timezone tokens start with Plus, a '-' in the timezone suffix leads to an
\* error, and a successful result never has a negative timezone_offset_second.
OffsetNeverNegative ==
    ret = "Ok" /\ include_timezone
        => /\ timezone_toks # <<>> => timezone_toks[1] = Plus
           /\ pc = "done" /\ res = "Ok" /\ leading_field \in LegalFields
                 => /\ \A k \in 1..Len(Suffix(value)) : Suffix(value)[k] # "-"
                    /\ pdt.timezone_offset_second # None
                          => ~IsNeg(pdt.timezone_offset_second[1])

====
